---------------------------- MODULE Spec2Model ----------------------------
(***************************************************************************)
(* Model of inv_pit.InversePIT (src/inv_pit/main.py): one stateful mapper  *)
(* holding `_cdf_map`, with the operations fit_from_cdf, fit_from_pdf,     *)
(* transform_cdf and transform_pdf.                                        *)
(*                                                                         *)
(* Arrays are one-dimensional float arrays, modelled as sequences of       *)
(* IEEE-754 values with exact (unrounded) finite arithmetic: a value is a  *)
(* finite rational with a signed zero, a signed infinity, or NaN.          *)
(* numpy's errstate only decides whether a warning is printed; the value   *)
(* of x/0, 0/0, inf-inf and 0*inf is the IEEE one in either case.          *)
(***************************************************************************)
EXTENDS Integers, Sequences, FiniteSets

VARIABLES cdf_map, args, ret, last_fit

vars == <<cdf_map, args, ret, last_fit>>

\* ------------------------------------------------------------------------
\* Bounds of the model

\* Longest array a caller passes (arrays have 2 .. MaxLen samples).
MaxLen == 3

\* ------------------------------------------------------------------------
\* IEEE-754 values: [k |-> "fin" | "inf" | "nan", s |-> 1 | -1, n, d]
\* (finite: s * n / d in lowest terms, n = 0 keeps the sign of the zero).

RECURSIVE Gcd(_, _)
Gcd(a, b) == IF b = 0 THEN a ELSE Gcd(b, a % b)

NaN == [k |-> "nan", s |-> 1, n |-> 0, d |-> 1]

Inf(sgn) == [k |-> "inf", s |-> sgn, n |-> 0, d |-> 1]

Fin(sgn, num, den) ==
    LET g == Gcd(num, den)
    IN  [k |-> "fin", s |-> sgn, n |-> num \div g, d |-> den \div g]

\* The finite value p/q of integers p and q > 0 (a zero is +0).
Q(p, q) == IF p < 0 THEN Fin(-1, -p, q) ELSE Fin(1, p, q)

Zero == Q(0, 1)
One == Q(1, 1)
Two == Q(2, 1)
Half == Q(1, 2)

IsNaN(a) == a.k = "nan"
IsFinite(a) == a.k = "fin"
IsZero(a) == a.k = "fin" /\ a.n = 0

Neg(a) == IF a.k = "nan" THEN a ELSE [a EXCEPT !.s = -a.s]

Add(a, b) ==
    IF a.k = "nan" \/ b.k = "nan" THEN NaN
    ELSE IF a.k = "inf" /\ b.k = "inf" THEN (IF a.s = b.s THEN a ELSE NaN)
    ELSE IF a.k = "inf" THEN a
    ELSE IF b.k = "inf" THEN b
    ELSE LET g == Gcd(a.d, b.d)
             l == (a.d \div g) * b.d
             num == a.s * a.n * (l \div a.d) + b.s * b.n * (l \div b.d)
         IN  IF num > 0 THEN Fin(1, num, l)
             ELSE IF num < 0 THEN Fin(-1, -num, l)
             ELSE IF a.n = 0 /\ b.n = 0 /\ a.s = -1 /\ b.s = -1
                  THEN Fin(-1, 0, 1)
                  ELSE Fin(1, 0, 1)

Sub(a, b) == Add(a, Neg(b))

Mul(a, b) ==
    IF a.k = "nan" \/ b.k = "nan" THEN NaN
    ELSE IF a.k = "inf" \/ b.k = "inf"
         THEN (IF IsZero(a) \/ IsZero(b) THEN NaN ELSE Inf(a.s * b.s))
    ELSE LET g1 == Gcd(a.n, b.d)
             g2 == Gcd(b.n, a.d)
         IN  Fin(a.s * b.s, (a.n \div g1) * (b.n \div g2),
                            (a.d \div g2) * (b.d \div g1))

Div(a, b) ==
    IF a.k = "nan" \/ b.k = "nan" THEN NaN
    ELSE IF a.k = "inf" THEN (IF b.k = "inf" THEN NaN ELSE Inf(a.s * b.s))
    ELSE IF b.k = "inf" THEN Fin(a.s * b.s, 0, 1)
    ELSE IF b.n = 0 THEN (IF a.n = 0 THEN NaN ELSE Inf(a.s * b.s))
    ELSE LET g1 == Gcd(a.n, b.n)
             g2 == Gcd(b.d, a.d)
         IN  Fin(a.s * b.s, (a.n \div g1) * (b.d \div g2),
                            (a.d \div g2) * (b.n \div g1))

\* IEEE comparisons: false as soon as one side is NaN; -0 equals +0.
Less(a, b) ==
    /\ a.k # "nan" /\ b.k # "nan"
    /\ IF a.k = "inf" THEN a.s = -1 /\ ~(b.k = "inf" /\ b.s = -1)
       ELSE IF b.k = "inf" THEN b.s = 1
       ELSE LET g == Gcd(a.d, b.d)
            IN  a.s * a.n * (b.d \div g) < b.s * b.n * (a.d \div g)

Equal(a, b) ==
    /\ a.k # "nan" /\ b.k # "nan"
    /\ IF a.k = "inf" \/ b.k = "inf" THEN a.k = b.k /\ a.s = b.s
       ELSE a.n = b.n /\ a.d = b.d /\ (a.n = 0 \/ a.s = b.s)

\* The order numpy sorts and searches by: IEEE order with every NaN last.
SortsBefore(a, b) == a.k # "nan" /\ (b.k = "nan" \/ Less(a, b))

Abs(a) == IF a.k = "nan" THEN a ELSE [a EXCEPT !.s = 1]

\* ------------------------------------------------------------------------
\* Arrays

Last(a) == a[Len(a)]

\* The function f on 1..n as an array (a tuple of its values).
Array(f) == f \o <<>>

\* a / v, element by element (numpy's `a /= v` with v read before the loop).
DivAll(a, v) == Array([i \in 1..Len(a) |-> Div(a[i], v)])

\* numpy.diff(x)
Diff(x) == Array([i \in 1..(Len(x) - 1) |-> Sub(x[i + 1], x[i])])

\* numpy.cumsum
RECURSIVE CumSum(_)
CumSum(t) ==
    IF Len(t) <= 1 THEN t
    ELSE LET r == CumSum(SubSeq(t, 1, Len(t) - 1))
         IN  Append(r, Add(Last(r), Last(t)))

\* ------------------------------------------------------------------------
\* numpy.isclose(a, 1) with the defaults rtol = 1e-05, atol = 1e-08:
\* finite a with |a - 1| <= atol + rtol * |1|.

RTolInv == 100000
ATolInv == 100000000

isclose(a) ==
    /\ a.k = "fin"
    /\ LET e == Sub(a, One)
           \* atol + rtol = (1 + ATolInv / RTolInv) / ATolInv
       IN  e.n <= ((1 + ATolInv \div RTolInv) * e.d) \div ATolInv

\* A variant of cumulative_trapezoid, used to test the properties: the
\* left rectangle rule.
cumulative_rectangle(y, x) ==
    LET d == Diff(x)
        t == Array([i \in 1..Len(d) |-> Mul(d[i], y[i])])
    IN  <<Zero>> \o CumSum(t)

\* ------------------------------------------------------------------------
\* scipy.integrate.cumulative_trapezoid(y, x, initial=0) for len(x) = len(y):
\* [0] followed by cumsum(diff(x) * (y[1:] + y[:-1]) / 2.0).
cumulative_trapezoid(y, x) ==
    LET d == Diff(x)
        t == Array([i \in 1..Len(d) |->
                      Div(Mul(d[i], Add(y[i + 1], y[i])), Two)])
    IN  <<Zero>> \o CumSum(t)

\* ------------------------------------------------------------------------
\* scipy.interpolate.interp1d(c, x, kind, bounds_error=False,
\* fill_value="extrapolate"): copies both arrays and sorts them by c with a
\* stable sort (NaN last).
Rank(c, i) ==
    1 + Cardinality({j \in 1..Len(c) :
                        \/ SortsBefore(c[j], c[i])
                        \/ (~SortsBefore(c[i], c[j]) /\ j < i)})

ArgSort(c) ==
    LET rank == Array([i \in 1..Len(c) |-> Rank(c, i)])
    IN  Array([p \in 1..Len(c) |-> CHOOSE i \in 1..Len(c) : rank[i] = p])

\* A variant of interp1d, used to test the properties: the arguments taken
\* in the other order, interp1d(x, c), which interpolates the CDF and not
\* its inverse.
interp1d_forward(c, x, kind) ==
    LET ind == ArgSort(x)
    IN  [x |-> Array([p \in 1..Len(x) |-> x[ind[p]]]),
         y |-> Array([p \in 1..Len(x) |-> c[ind[p]]]),
         kind |-> kind]

interp1d(c, x, kind) ==
    LET ind == ArgSort(c)
    IN  [x |-> Array([p \in 1..Len(c) |-> c[ind[p]]]),
         y |-> Array([p \in 1..Len(c) |-> x[ind[p]]]),
         kind |-> kind]

\* numpy.searchsorted(a, v) (side "left") on a sorted array, 0-based result:
\* the number of entries that sort before v.
searchsorted(a, v) == Cardinality({j \in 1..Len(a) : SortsBefore(a[j], v)})

Clip(i, lo, hi) == IF i < lo THEN lo ELSE IF i > hi THEN hi ELSE i

\* interp1d._call_linear for one query value q.
call_linear(f, q) ==
    LET hi == Clip(searchsorted(f.x, q), 1, Len(f.x) - 1)
        lo == hi - 1
        x_lo == f.x[lo + 1]
        x_hi == f.x[hi + 1]
        y_lo == f.y[lo + 1]
        y_hi == f.y[hi + 1]
        slope == Div(Sub(y_hi, y_lo), Sub(x_hi, x_lo))
    IN  Add(Mul(slope, Sub(q, x_lo)), y_lo)

\* self._cdf_map(cdf): the interpolant applied to every entry.
cdf_map_call(f, cdf) ==
    Array([i \in 1..Len(cdf) |-> call_linear(f, cdf[i])])

\* ------------------------------------------------------------------------
\* numpy.gradient(f, x, edge_order=2) for len(f) >= 3 (shorter arrays raise
\* ValueError).  dx = diff(x); when every spacing equals the first one the
\* scalar (uniform) formulas are used, otherwise the non-uniform ones.
Lin3(a, f1, b, f2, c, f3) == Add(Add(Mul(a, f1), Mul(b, f2)), Mul(c, f3))

uniform_spacing(dx) == \A i \in 1..Len(dx) : Equal(dx[i], dx[1])

gradient_interior(f, dx, i) ==
    IF uniform_spacing(dx)
    THEN Div(Sub(f[i + 1], f[i - 1]), Mul(Two, dx[1]))
    ELSE LET dx1 == dx[i - 1]
             dx2 == dx[i]
             a == Div(Neg(dx2), Mul(dx1, Add(dx1, dx2)))
             b == Div(Sub(dx2, dx1), Mul(dx1, dx2))
             c == Div(dx1, Mul(dx2, Add(dx1, dx2)))
         IN  Lin3(a, f[i - 1], b, f[i], c, f[i + 1])

gradient_first(f, dx) ==
    IF uniform_spacing(dx)
    THEN Lin3(Div(Q(-3, 2), dx[1]), f[1], Div(Two, dx[1]), f[2],
              Div(Q(-1, 2), dx[1]), f[3])
    ELSE LET dx1 == dx[1]
             dx2 == dx[2]
             a == Div(Neg(Add(Mul(Two, dx1), dx2)), Mul(dx1, Add(dx1, dx2)))
             b == Div(Add(dx1, dx2), Mul(dx1, dx2))
             c == Div(Neg(dx1), Mul(dx2, Add(dx1, dx2)))
         IN  Lin3(a, f[1], b, f[2], c, f[3])

gradient_last(f, dx) ==
    LET n == Len(f)
    IN  IF uniform_spacing(dx)
        THEN Lin3(Div(Half, dx[1]), f[n - 2], Div(Q(-2, 1), dx[1]), f[n - 1],
                  Div(Q(3, 2), dx[1]), f[n])
        ELSE LET dx1 == dx[n - 2]
                 dx2 == dx[n - 1]
                 a == Div(dx2, Mul(dx1, Add(dx1, dx2)))
                 b == Div(Neg(Add(dx2, dx1)), Mul(dx1, dx2))
                 c == Div(Add(Mul(Two, dx2), dx1), Mul(dx2, Add(dx1, dx2)))
             IN  Lin3(a, f[n - 2], b, f[n - 1], c, f[n])

\* A variant of gradient, used to test the properties: edge_order=1, the
\* one-sided first differences at the two ends.
gradient_edge_order_1(f, x) ==
    LET dx == Diff(x)
        n == Len(f)
    IN  Array([i \in 1..n |->
                  IF i = 1 THEN Div(Sub(f[2], f[1]), dx[1])
                  ELSE IF i = n THEN Div(Sub(f[n], f[n - 1]), dx[n - 1])
                  ELSE gradient_interior(f, dx, i)])

gradient(f, x) ==
    LET dx == Diff(x)
        n == Len(f)
    IN  Array([i \in 1..n |-> IF i = 1 THEN gradient_first(f, dx)
                              ELSE IF i = n THEN gradient_last(f, dx)
                              ELSE gradient_interior(f, dx, i)])

\* ------------------------------------------------------------------------
\* The mapper's state

\* Python's None (the class attribute `_cdf_map = None`), and the mark of a
\* namespace that holds no `_cdf_map` attribute of its own.
None == [kind |-> "None"]
Unset == [kind |-> "unset"]

\* The namespace of the class; every other namespace is an instance's.
Class == "InversePIT"

\* Attribute lookup `self._cdf_map`: the instance's own attribute when it
\* has one, the class attribute otherwise.
self_cdf_map(ns, i) == IF ns[i] # Unset THEN ns[i] ELSE ns[Class]

\* A variant of assign_target, used to test the properties: the assignment
\* `InversePIT._cdf_map = ...`, which writes to the class.
assign_target_class(i) == Class

\* The namespace an assignment `self._cdf_map = ...` writes to.
assign_target(i) == i

\* ------------------------------------------------------------------------
\* The four methods as functions of self._cdf_map (m) and the arguments.
\* A fit yields: the exception raised ("ok" when none), whether
\* self._cdf_map was assigned and to what, the caller's dependent array as
\* the call leaves it, and the array handed to interp1d.  A transform
\* yields the exception and the returned pair.

\* A variant of enforce_normalisation, used to test the properties: the
\* cdf is taken as it is passed.
never_normalise(cdf) == cdf

\* fit_from_cdf, lines 104-105: the in-place rescaling of cdf.
enforce_normalisation(cdf) ==
    IF ~isclose(Last(cdf)) THEN DivAll(cdf, Last(cdf)) ELSE cdf

\* Variants of fit_from_cdf, used to test the properties.  The first
\* clears the mapping before it checks the shapes; the second fits an
\* instance once and keeps that mapping; the third rescales a copy of cdf.
fit_from_cdf_reset_first(m, x, cdf, kind) ==
    IF Len(x) # Len(cdf)
    THEN [status |-> "AssertionError", assigned |-> TRUE, map |-> None,
          dep |-> cdf, handed |-> <<>>]
    ELSE LET c == enforce_normalisation(cdf)
         IN  [status |-> "ok", assigned |-> TRUE,
              map |-> interp1d(c, x, kind), dep |-> c, handed |-> c]

fit_from_cdf_once(m, x, cdf, kind) ==
    IF Len(x) # Len(cdf)
    THEN [status |-> "AssertionError", assigned |-> FALSE, map |-> m,
          dep |-> cdf, handed |-> <<>>]
    ELSE LET c == enforce_normalisation(cdf)
         IN  [status |-> "ok", assigned |-> m = None,
              map |-> interp1d(c, x, kind), dep |-> c, handed |-> c]

fit_from_cdf_copy(m, x, cdf, kind) ==
    IF Len(x) # Len(cdf)
    THEN [status |-> "AssertionError", assigned |-> FALSE, map |-> m,
          dep |-> cdf, handed |-> <<>>]
    ELSE LET c == enforce_normalisation(cdf)
         IN  [status |-> "ok", assigned |-> TRUE,
              map |-> interp1d(c, x, kind), dep |-> cdf, handed |-> c]

fit_from_cdf_result(m, x, cdf, kind) ==
    IF Len(x) # Len(cdf)
    THEN [status |-> "AssertionError", assigned |-> FALSE, map |-> m,
          dep |-> cdf, handed |-> <<>>]
    ELSE LET c == enforce_normalisation(cdf)
         IN  [status |-> "ok", assigned |-> TRUE,
              map |-> interp1d(c, x, kind), dep |-> c, handed |-> c]

\* A variant of fit_from_pdf, used to test the properties: no assertion, so
\* that the integration routine is the one to reject the shapes.
fit_from_pdf_unchecked(m, x, pdf, kind) ==
    IF Len(x) # Len(pdf)
    THEN [status |-> "ValueError", assigned |-> FALSE, map |-> m,
          dep |-> pdf, handed |-> <<>>]
    ELSE LET cdf0 == cumulative_trapezoid(pdf, x)
             cdf == DivAll(cdf0, Last(cdf0))
             r == fit_from_cdf_result(m, x, cdf, kind)
         IN  [r EXCEPT !.dep = pdf]

fit_from_pdf_result(m, x, pdf, kind) ==
    IF Len(x) # Len(pdf)
    THEN [status |-> "AssertionError", assigned |-> FALSE, map |-> m,
          dep |-> pdf, handed |-> <<>>]
    ELSE LET cdf0 == cumulative_trapezoid(pdf, x)
             cdf == DivAll(cdf0, Last(cdf0))
             r == fit_from_cdf_result(m, x, cdf, kind)
         IN  [r EXCEPT !.dep = pdf]

Raised(e) == [status |-> e, x |-> <<>>, d |-> <<>>]

\* A variant of transform_cdf, used to test the properties: no guard, so
\* that calling None raises TypeError.
transform_cdf_unguarded(m, x, cdf) ==
    IF m = None
    THEN Raised("TypeError")
    ELSE [status |-> "ok", x |-> cdf_map_call(m, cdf), d |-> cdf]

transform_cdf_result(m, x, cdf) ==
    IF m = None
    THEN Raised("RuntimeError")
    ELSE [status |-> "ok", x |-> cdf_map_call(m, cdf), d |-> cdf]

transform_pdf_result(m, x, pdf) ==
    IF Len(x) # Len(pdf)
    THEN Raised("ValueError")       \* cumulative_trapezoid: lengths differ
    ELSE LET cdf0 == cumulative_trapezoid(pdf, x)
             cdf == DivAll(cdf0, Last(cdf0))
             t == transform_cdf_result(m, x, cdf)
         IN  IF t.status # "ok" THEN t
             ELSE IF Len(t.d) < 3
                  THEN Raised("ValueError")   \* numpy.gradient, edge_order=2
                  ELSE [status |-> "ok", x |-> t.x, d |-> gradient(t.d, t.x)]

\* ------------------------------------------------------------------------
\* State.  cdf_map: the `_cdf_map` attribute of the class and of each
\* instance.  args: the arrays the caller holds (the arguments of its last
\* call, as that call left them).  ret: the last call and what it returned
\* or raised (no arrays when it raised, or returned None).  last_fit: per instance, the arguments of the last fit that
\* succeeded and the array it handed to interp1d (history).

Instances == {"A", "B"}

NoArgs == [what |-> "none", x |-> <<>>, d |-> <<>>]

NoCall == [op |-> "none", inst |-> "none", status |-> "ok",
           fitted_before |-> FALSE,
           x_in |-> <<>>, d_in |-> <<>>, x |-> <<>>, d |-> <<>>]

NoFit == [op |-> "none"]

Init ==
    /\ cdf_map = [ns \in Instances \cup {Class} |->
                    IF ns = Class THEN None ELSE Unset]
    /\ args = NoArgs
    /\ ret = NoCall
    /\ last_fit = [i \in Instances |-> NoFit]

\* The record of a call: the method, the instance, whether the instance
\* was fitted when the call was made, the arrays as passed, and what the
\* call raised and returned.
Call(op, i, x, dep, r) ==
    [op |-> op, inst |-> i, status |-> r.status,
     fitted_before |-> self_cdf_map(cdf_map, i) # None,
     x_in |-> x, d_in |-> dep, x |-> r.x, d |-> r.d]

fit_from_cdf(i, x, cdf, kind) ==
    LET r == fit_from_cdf_result(self_cdf_map(cdf_map, i), x, cdf, kind)
    IN  /\ cdf_map' = IF r.assigned
                      THEN [cdf_map EXCEPT ![assign_target(i)] = r.map]
                      ELSE cdf_map
        /\ args' = [what |-> "cdf", x |-> x, d |-> r.dep]
        /\ ret' = Call("fit_from_cdf", i, x, cdf, Raised(r.status))
        /\ last_fit' = IF r.status = "ok"
                       THEN [last_fit EXCEPT ![i] =
                               [op |-> "fit_from_cdf", x |-> x, d |-> cdf,
                                kind |-> kind, handed |-> r.handed]]
                       ELSE last_fit

fit_from_pdf(i, x, pdf, kind) ==
    LET r == fit_from_pdf_result(self_cdf_map(cdf_map, i), x, pdf, kind)
    IN  /\ cdf_map' = IF r.assigned
                      THEN [cdf_map EXCEPT ![assign_target(i)] = r.map]
                      ELSE cdf_map
        /\ args' = [what |-> "pdf", x |-> x, d |-> r.dep]
        /\ ret' = Call("fit_from_pdf", i, x, pdf, Raised(r.status))
        /\ last_fit' = IF r.status = "ok"
                       THEN [last_fit EXCEPT ![i] =
                               [op |-> "fit_from_pdf", x |-> x, d |-> pdf,
                                kind |-> kind, handed |-> r.handed]]
                       ELSE last_fit

transform_cdf(i, x, cdf) ==
    LET r == transform_cdf_result(self_cdf_map(cdf_map, i), x, cdf)
    IN  /\ args' = [what |-> "cdf", x |-> x, d |-> cdf]
        /\ ret' = Call("transform_cdf", i, x, cdf, r)
        /\ UNCHANGED <<cdf_map, last_fit>>

transform_pdf(i, x, pdf) ==
    LET r == transform_pdf_result(self_cdf_map(cdf_map, i), x, pdf)
    IN  /\ args' = [what |-> "pdf", x |-> x, d |-> pdf]
        /\ ret' = Call("transform_pdf", i, x, pdf, r)
        /\ UNCHANGED <<cdf_map, last_fit>>

\* The caller drops the arrays and the result it holds.
release ==
    /\ args.what # "none"
    /\ args' = NoArgs
    /\ ret' = NoCall
    /\ UNCHANGED <<cdf_map, last_fit>>

\* ------------------------------------------------------------------------
\* Input arrays, n samples each.

XGrid(n) == Array([i \in 1..n |-> Q(i - 1, 1)])  \* 0, 1, 2, ...
XRev(n) == Array([i \in 1..n |-> Q(n - i, 1)])  \* decreasing
XDup(n) == Array([i \in 1..n |-> Q(IF i = 1 THEN 0 ELSE i - 2, 1)])  \* 0, 0, 1, ...
XSkew(n) == Array([i \in 1..n |-> Q(IF i = n THEN n ELSE i - 1, 1)])  \* uneven
XConst(n) == Array([i \in 1..n |-> One])
XZig(n) == Array([i \in 1..n |-> Q(IF i = 2 THEN -1 ELSE i - 1, 1)])  \* 0, -1, 2, ...

PUniform(n) == Array([i \in 1..n |-> One])
PRamp(n) == Array([i \in 1..n |-> Q(i - 1, 1)])
PZeros(n) == Array([i \in 1..n |-> Zero])
PHead(n) == Array([i \in 1..n |-> IF i = 1 THEN One ELSE Zero])  \* 1, 0, 0, ...
PTail(n) == Array([i \in 1..n |-> IF i = n THEN One ELSE Zero])  \* ..., 0, 0, 1
PDip(n) == Array([i \in 1..n |->
               Q(IF i = 1 THEN -3 ELSE IF i = n THEN 3 ELSE 1, 1)])  \* -3, 1, ..., 3
PSigned(n) == Array([i \in 1..n |-> Q(2 * i - n - 1, 1)])  \* sums to 0

CLin(n) == Array([i \in 1..n |-> Q(i - 1, n - 1)])  \* 0 .. 1
CGrid(n) == Array([i \in 1..n |-> Q(i - 1, 1)])  \* ends at n - 1
CTrunc(n) == Array([i \in 1..n |-> Q(i, n + 1)])  \* ends below 1
CFlatHead(n) == Array([i \in 1..n |-> IF i <= 2 THEN Zero ELSE Q(i - 2, n - 2)])
CFlatTail(n) == Array([i \in 1..n |-> IF i >= n - 1 THEN One ELSE Q(i - 1, n - 2)])
CZeros(n) == Array([i \in 1..n |-> Zero])
CDec(n) == Array([i \in 1..n |-> Q(n - i, n - 1)])  \* 1 .. 0
\* Two samples ending within isclose's tolerance of 1, but not at 1.
CNear == <<Q(1, RTolInv), Q(RTolInv + 1, RTolInv)>>

Lens == 2..MaxLen

\* The pairs (x, dep) a caller passes: every pair of equal length, and the
\* dependent arrays of M with a grid of another length.
Pairs(X, D, M) ==
    {a \in X \X D : Len(a[1]) = Len(a[2])} \cup
    {a \in {XGrid(n) : n \in Lens} \X M : Len(a[1]) # Len(a[2])}

\* The inputs of the numerical specification (one instance).
NumX == UNION {{XGrid(n), XRev(n), XDup(n), XSkew(n), XConst(n),
                XZig(n)} : n \in Lens}
NumPdf == UNION {{PUniform(n), PRamp(n), PZeros(n), PHead(n), PTail(n), PDip(n),
                  PSigned(n)} : n \in Lens}
NumCdf == UNION {{CLin(n), CGrid(n), CTrunc(n), CFlatHead(n), CFlatTail(n),
                  CZeros(n), CDec(n)} : n \in Lens} \cup {CNear}
NumInputs ==
    [insts |-> {"A"}, kinds |-> {"linear"},
     cdf_in |-> Pairs(NumX, NumCdf, {CLin(n) : n \in Lens}),
     pdf_in |-> Pairs(NumX, NumPdf, {PUniform(n) : n \in Lens})]

\* The inputs of the two-instance specification.
TwoX == {XGrid(n) : n \in Lens}
TwoPdf == UNION {{PUniform(n), PZeros(n)} : n \in Lens}
TwoCdf == UNION {{CLin(n), CGrid(n), CTrunc(n)} : n \in Lens}
TwoInputs ==
    [insts |-> Instances, kinds |-> {"linear"},
     cdf_in |-> Pairs(TwoX, TwoCdf, TwoCdf),
     pdf_in |-> Pairs(TwoX, TwoPdf, TwoPdf)]

\* What the caller passes as (x, dep): fresh arrays when it holds none, the
\* arrays it holds when they are of the kind the method takes.
Choices(S, what) ==
    IF args.what = "none" THEN S
    ELSE IF args.what = what THEN {<<args.x, args.d>>} ELSE {}

Step(F) ==
    \/ \E i \in F.insts, k \in F.kinds, a \in Choices(F.cdf_in, "cdf") :
          fit_from_cdf(i, a[1], a[2], k)
    \/ \E i \in F.insts, k \in F.kinds, a \in Choices(F.pdf_in, "pdf") :
          fit_from_pdf(i, a[1], a[2], k)
    \/ \E i \in F.insts, a \in Choices(F.cdf_in, "cdf") :
          transform_cdf(i, a[1], a[2])
    \/ \E i \in F.insts, a \in Choices(F.pdf_in, "pdf") :
          transform_pdf(i, a[1], a[2])
    \/ release

Next == Step(TwoInputs)
NextNum == Step(NumInputs)

Spec == Init /\ [][Next]_vars
SpecNum == Init /\ [][NextNum]_vars

\* ------------------------------------------------------------------------
\* Vocabulary of the properties

fitted(i) == self_cdf_map(cdf_map, i) # None

Fits == {"fit_from_cdf", "fit_from_pdf"}
Transforms == {"transform_cdf", "transform_pdf"}

NotFittedError == "RuntimeError"
\* The errors that report mismatched shapes: the methods' own assertion and
\* the length check of the integration routine.
InvalidInputShape == {"AssertionError", "ValueError"}

Mismatched == Len(ret.x_in) # Len(ret.d_in)
NoResult == ret.x = <<>> /\ ret.d = <<>>

\* The mapping the last successful fit of instance i built.
FittedMap(i) ==
    IF last_fit[i] = NoFit THEN None
    ELSE interp1d(last_fit[i].handed, last_fit[i].x, last_fit[i].kind)

\* ------------------------------------------------------------------------
\* C1 (as claimed): a transform called on an instance on which no fit has
\* succeeded raises the not-fitted error and returns nothing, whatever its
\* arguments; an instance that was fitted stays fitted, and a transform on
\* it does not raise the not-fitted error.
C1_AnyUnfittedTransformNotFitted ==
    /\ (ret.op \in Transforms /\ last_fit[ret.inst] = NoFit)
          => (ret.status = NotFittedError /\ NoResult)
    /\ \A i \in Instances : last_fit[i] # NoFit => fitted(i)
    /\ (ret.op \in Transforms /\ last_fit[ret.inst] # NoFit)
          => ret.status # NotFittedError

\* C1 (amended): on an instance on which no fit has succeeded, transform_cdf
\* always raises the not-fitted error, and transform_pdf raises it when x
\* and pdf have the same length; with different lengths transform_pdf
\* raises the integration routine's length error first.  Either way nothing
\* is returned.  A fitted instance stays fitted, and only a transform on an
\* unfitted instance raises the not-fitted error.
C1_NotFittedGuard ==
    /\ (ret.op = "transform_cdf" /\ last_fit[ret.inst] = NoFit)
          => (ret.status = NotFittedError /\ NoResult)
    /\ (ret.op = "transform_pdf" /\ last_fit[ret.inst] = NoFit)
          => /\ ret.status = IF Mismatched THEN "ValueError"
                             ELSE NotFittedError
             /\ NoResult
    /\ \A i \in Instances : last_fit[i] # NoFit <=> fitted(i)
    /\ ret.status = NotFittedError
          => (ret.op \in Transforms /\ last_fit[ret.inst] = NoFit)

C1_Witness ==
    /\ ret.op = "transform_pdf" /\ ret.status = NotFittedError
    /\ ~ret.fitted_before
    /\ \E j \in Instances : last_fit[j] # NoFit

\* ------------------------------------------------------------------------
\* C2 (as claimed): every one of the four methods, called with x and a
\* dependent array of different lengths, raises the shape error, whether
\* the instance is fitted or not.
C2_AllMethodsRejectMismatch ==
    (ret.op # "none" /\ Mismatched) => ret.status \in InvalidInputShape

\* C2 (amended): with x and the dependent array of different lengths,
\* fit_from_cdf and fit_from_pdf raise the shape assertion and transform_pdf
\* raises the integration routine's length error, fitted or not;
\* transform_cdf checks no shape: unfitted it raises the not-fitted error,
\* fitted it returns the mapped values, one per entry of cdf.
C2_ShapeGuard ==
    (ret.op # "none" /\ Mismatched) =>
        /\ ret.op \in Fits => ret.status = "AssertionError"
        /\ ret.op = "transform_pdf" => ret.status = "ValueError"
        /\ ret.op = "transform_cdf" =>
              IF ret.fitted_before
              THEN ret.status = "ok" /\ Len(ret.x) = Len(ret.d_in)
              ELSE ret.status = NotFittedError

C2_Witness ==
    /\ ret.op = "transform_cdf" /\ Mismatched
    /\ ret.fitted_before /\ ret.status = "ok"

\* ------------------------------------------------------------------------
\* C3: a fit that raises installs nothing: every `_cdf_map` attribute and
\* the record of the last successful fit are what they were before the
\* call, and every stored mapping is a complete one (as many x values as
\* cdf values, at least two).
CompleteMap(m) == m \in {None, Unset} \/ (Len(m.x) = Len(m.y) /\ Len(m.x) >= 2)

C3_FailedFitInstallsNothing ==
    [][/\ (ret'.op \in Fits /\ ret'.status # "ok")
             => (cdf_map' = cdf_map /\ last_fit' = last_fit)
       /\ \A ns \in DOMAIN cdf_map : CompleteMap(cdf_map'[ns])]_vars

C3_Witness ==
    /\ ret.op \in Fits /\ ret.status # "ok"
    /\ ret.fitted_before /\ fitted(ret.inst)

\* ------------------------------------------------------------------------
\* C4: the stored mapping of every instance is exactly the one its most
\* recent successful fit built (None before any), and a transform's x
\* values are that mapping applied to the cdf values it was given (for
\* transform_pdf, to the normalised integral of the pdf).
C4_LastFitWins ==
    /\ \A i \in Instances : self_cdf_map(cdf_map, i) = FittedMap(i)
    /\ (ret.op = "transform_cdf" /\ ret.status = "ok")
          => /\ ret.x = cdf_map_call(FittedMap(ret.inst), ret.d_in)
             /\ ret.d = ret.d_in
    /\ (ret.op = "transform_pdf" /\ ret.status = "ok")
          => LET c == cumulative_trapezoid(ret.d_in, ret.x_in)
             IN  ret.x = cdf_map_call(FittedMap(ret.inst), DivAll(c, Last(c)))

C4_Witness ==
    /\ ret.op \in Fits /\ ret.status = "ok" /\ ret.fitted_before
    /\ last_fit[ret.inst].x = ret.x_in /\ last_fit[ret.inst].d = ret.d_in

\* ------------------------------------------------------------------------
\* C9: a call on one instance changes the `_cdf_map` no other instance
\* sees, so an instance that was never fitted still raises the not-fitted
\* error on a well-formed transform, whatever was fitted elsewhere.
C9_InstancesIndependent ==
    [][/\ \A j \in Instances :
             j # ret'.inst => self_cdf_map(cdf_map', j) = self_cdf_map(cdf_map, j)
       /\ (ret'.op \in Transforms /\ last_fit'[ret'.inst] = NoFit
              /\ Len(ret'.x_in) = Len(ret'.d_in))
             => ret'.status = NotFittedError]_vars

C9_Witness ==
    /\ ret.op = "transform_cdf" /\ ret.inst = "B"
    /\ ret.status = NotFittedError
    /\ last_fit["A"] # NoFit /\ fitted("A") /\ ~fitted("B")

StrictlyIncreasing(a) == \A k \in 1..(Len(a) - 1) : Less(a[k], a[k + 1])
NonDecreasing(a) == \A k \in 1..(Len(a) - 1) : ~Less(a[k + 1], a[k])
AllFinite(a) == \A k \in 1..Len(a) : IsFinite(a[k])
NonNegative(a) == \A k \in 1..Len(a) : ~Less(a[k], Zero)
SameValues(a, b) ==
    Len(a) = Len(b) /\ \A k \in 1..Len(a) : Equal(a[k], b[k])

\* The value a fit divides by: for fit_from_cdf the last cdf value passed,
\* for fit_from_pdf the integral of the pdf over the whole of x.
Normaliser(f) ==
    IF f.op = "fit_from_cdf" THEN Last(f.d)
    ELSE Last(cumulative_trapezoid(f.d, f.x))

\* ------------------------------------------------------------------------
\* C5 (as claimed): after any successful fit the array handed to the
\* interpolator ends at 1 within isclose's tolerance; for fit_from_cdf,
\* whenever the last cdf value passed is not zero.
C5_AlwaysNormalised ==
    \A i \in Instances :
        (last_fit[i] # NoFit
            /\ (last_fit[i].op = "fit_from_cdf" => ~IsZero(Last(last_fit[i].d))))
        => isclose(Last(last_fit[i].handed))

\* C5 (amended): after a successful fit whose normaliser (the last cdf
\* value passed to fit_from_cdf, the integral of the pdf passed to
\* fit_from_pdf) is finite and not zero, the array handed to the
\* interpolator ends at 1 within isclose's tolerance: at 1 exactly when it
\* was rescaled, at the value passed otherwise.
C5_NormalisedUnlessZero ==
    \A i \in Instances :
        (last_fit[i] # NoFit /\ IsFinite(Normaliser(last_fit[i]))
            /\ ~IsZero(Normaliser(last_fit[i])))
        => /\ isclose(Last(last_fit[i].handed))
           /\ \/ Last(last_fit[i].handed) = One
              \/ (last_fit[i].op = "fit_from_cdf"
                    /\ last_fit[i].handed = last_fit[i].d)

C5_Witness ==
    /\ last_fit["A"] # NoFit /\ last_fit["A"].op = "fit_from_cdf"
    /\ ~isclose(Last(last_fit["A"].d))
    /\ Last(last_fit["A"].handed) = One

\* ------------------------------------------------------------------------
\* C6: fit_from_pdf(x, pdf) stores the mapping fit_from_cdf(x, C) stores,
\* C being the cumulative trapezoidal integral of pdf over x (0 at the
\* first sample, one value per sample) divided by its last value; so a
\* transform_cdf after it returns what that mapping gives.
RECURSIVE Trapezoid(_, _, _)
Trapezoid(pdf, x, k) ==
    IF k = 1 THEN Zero
    ELSE LET area == Div(Mul(Sub(x[k], x[k - 1]), Add(pdf[k], pdf[k - 1])),
                         Two)
         IN  IF k = 2 THEN area ELSE Add(Trapezoid(pdf, x, k - 1), area)

NormalisedIntegral(pdf, x) ==
    Array([k \in 1..Len(x) |->
              Div(Trapezoid(pdf, x, k), Trapezoid(pdf, x, Len(x)))])

FromCdf(f) ==
    fit_from_cdf_result(None, f.x, NormalisedIntegral(f.d, f.x), f.kind).map

C6_PdfFitIsCdfFit ==
    \A i \in Instances :
        (last_fit[i] # NoFit /\ last_fit[i].op = "fit_from_pdf")
        => /\ self_cdf_map(cdf_map, i) = FromCdf(last_fit[i])
           /\ (ret.op = "transform_cdf" /\ ret.inst = i /\ ret.status = "ok")
                 => ret.x = cdf_map_call(FromCdf(last_fit[i]), ret.d_in)

C6_Witness ==
    /\ last_fit["A"] # NoFit /\ last_fit["A"].op = "fit_from_pdf"
    /\ StrictlyIncreasing(last_fit["A"].x)
    /\ ret.op = "transform_cdf" /\ ret.inst = "A" /\ ret.status = "ok"
    /\ AllFinite(ret.x)

\* ------------------------------------------------------------------------
\* C7 (as claimed): fit_from_cdf(x, cdf) followed by transform_cdf(x, cdf),
\* for the sampled CDF of a distribution (x increasing, cdf non-decreasing
\* from at least 0 up to 1), returns the x values it was fitted with and
\* the cdf values it was given.
SelfTransform ==
    /\ ret.op = "transform_cdf" /\ ret.status = "ok"
    /\ last_fit[ret.inst].op = "fit_from_cdf"
    /\ ret.x_in = last_fit[ret.inst].x
    /\ ret.d_in = last_fit[ret.inst].handed

C7_IdentityOnAnyCdf ==
    (/\ SelfTransform
     /\ StrictlyIncreasing(ret.x_in)
     /\ NonDecreasing(ret.d_in) /\ NonNegative(ret.d_in)
     /\ isclose(Last(ret.d_in)))
    => (SameValues(ret.x, ret.x_in) /\ ret.d = ret.d_in)

\* C7 (amended): the same holds when the cdf values are strictly
\* increasing (the CDF is invertible on the grid) and the transform is
\* given the cdf array as the fit left it; where the cdf repeats a value
\* the transform returns one x for all of its samples, or NaN.
C7_IdentityOnInvertibleCdf ==
    (/\ SelfTransform
     /\ AllFinite(ret.x_in)
     /\ StrictlyIncreasing(ret.d_in) /\ AllFinite(ret.d_in))
    => (SameValues(ret.x, ret.x_in) /\ ret.d = ret.d_in)

C7_Witness ==
    /\ SelfTransform
    /\ StrictlyIncreasing(ret.d_in) /\ StrictlyIncreasing(ret.x_in)
    /\ Len(ret.x_in) = MaxLen
    /\ last_fit[ret.inst].d # ret.d_in
    /\ SameValues(ret.x, ret.x_in)

\* ------------------------------------------------------------------------
\* C8.  ret.x is the transformed x of a transform_pdf call, ret.d the pdf
\* it returned.
FlatStep(x, k) == k \in 1..(Len(x) - 1) /\ Equal(x[k], x[k + 1])
BackStep(x, k) == k \in 1..(Len(x) - 1) /\ Less(x[k + 1], x[k])
AtFlat(x, k) == FlatStep(x, k - 1) \/ FlatStep(x, k)
AtBack(x, k) == BackStep(x, k - 1) \/ BackStep(x, k)

FittedTransformPdf ==
    /\ ret.op = "transform_pdf" /\ ret.fitted_before
    /\ Len(ret.x_in) = Len(ret.d_in)

=============================================================================
